---- MODULE Spec2Model ----
(***************************************************************************)
(* Model of the food-sharing backend: the listing, request and order       *)
(* handlers of src/routes/foodRouter.js over the three MongoDB             *)
(* collections, and the notification senders of src/config/emailService.js.*)
(* Every handler is an async function: each awaited collection call is one *)
(* atomic step of the store, taken together with the synchronous code that *)
(* follows it up to the next await.  Handlers of different HTTP requests    *)
(* interleave at those awaits.  calls keeps one record per invocation, so   *)
(* that what a handler read, wrote and answered can be stated afterwards.   *)
(***************************************************************************)
EXTENDS Integers, Sequences, FiniteSets, TLC

\* ------------------------------------------------------------- bounds
MaxCalls == 1
MaxFoods == 1
MaxOrders == 1
MaxNow == 2
TicksPerDay == 2
MaxListed == 25

\* ------------------------------------------------------------- JS values
\* Text fields are strings; an absent property reads as undefined.
UNDEF_S == "<undefined>"
FalsyS(s) == s \in {UNDEF_S, ""}
\* a || b on text fields
OrS(a, b) == IF FalsyS(a) THEN b ELSE a

\* quantity / price travel as JSON numbers or as numeric strings.
UNDEF == [t |-> "undef", v |-> 0]
NaN == [t |-> "nan", v |-> 0]
Num(n) == [t |-> "num", v |-> n]
Str(n) == [t |-> "str", v |-> n]
\* Number(x)
ToNumber(x) ==
  CASE x.t = "num" -> x
    [] x.t = "str" -> Num(x.v)
    [] OTHER -> NaN
\* !x
Falsy(x) == x.t \in {"undef", "nan"} \/ x = Num(0)
\* x || 0
OrZero(x) == IF Falsy(x) THEN Num(0) ELSE x
\* a === b
StrictEq(a, b) == a.t # "nan" /\ b.t # "nan" /\ a = b

\* ------------------------------------------------------------- dates
\* An instant is a number of clock ticks since the epoch (UTC); a tick is
\* the resolution of the clock (a millisecond of Date), and a day is
\* shortened to TicksPerDay ticks.  A date string that does not parse gives
\* an Invalid Date; a missing one too.
InvalidDate == 0 - 1
AbsentDate == 0 - 2
IsValidDate(d) == d >= 0
\* d.setHours(0, 0, 0, 0): midnight of the local day that contains d
SetHoursZero(d, off) == ((d + off) \div TicksPerDay) * TicksPerDay - off
\* d.toISOString().split('T')[0]: the UTC calendar day of d
ISODay(d) == d \div TicksPerDay
IsExpired_utcDay(exDate, today, off) ==
  IsValidDate(exDate) /\ ISODay(exDate) < ISODay(today)
\* expirationDate < currentDate, false when expirationDate is invalid (NaN)
IsExpired(exDate, today, off) ==
  /\ IsValidDate(exDate)
  /\ SetHoursZero(exDate, off) < SetHoursZero(today, off)

\* ------------------------------------------------------------- domains
FoodIds == 1..MaxFoods
OrderIds == 1..MaxOrders
Owners == {"donor"}
Users == {"donor", "alice", "bob"}
TZOffsets == {0 - 1, 0, 1}
ExDates == {InvalidDate, 0, MaxNow}

VARIABLES foods, requests, orders, nextFood, nextOrder, calls, mails, now, tz
vars == <<foods, requests, orders, nextFood, nextOrder, calls, mails, now, tz>>

\* ------------------------------------------------------------- responses
R(code, msg) == [code |-> code, msg |-> msg]
NoResp == R(0, "")
FoodNotFound == R(404, "Food item not found")
OwnFood == R(400, "You cannot request your own donated food.")
ExpiredFood == R(400, "This food item has expired and cannot be requested")
StatusUpdated == R(200, "Successfully updated status")
StatusNotUpdated == R(200, "Failed to update status.")
ServerError501 == R(501, "Server Side Error")
ServerError500 == R(500, "Server Side Error")

\* ------------------------------------------------------------- store
Exists(id) == id \in DOMAIN foods
Put(coll, id, doc) == [i \in DOMAIN coll \cup {id} |-> IF i = id THEN doc ELSE coll[i]]
Remove(coll, id) == [i \in DOMAIN coll \ {id} |-> coll[i]]
\* The document an upsert creates holds only _id and the $set fields.
EmptyFood ==
  [userEmail |-> UNDEF_S, foodName |-> UNDEF_S, foodImg |-> UNDEF_S,
   location |-> UNDEF_S, quantity |-> UNDEF, exDate |-> AbsentDate,
   description |-> UNDEF_S, note |-> UNDEF_S, price |-> UNDEF,
   status |-> UNDEF_S]

Done(c) == calls[c].pc = "done"
DoneCalls == {c \in DOMAIN calls : Done(c)}
\* One handler invocation: its request (op, id, user, body), where it stands
\* (pc), what findOne gave it (found, food), the clock it read (at), whether
\* it has inserted its record (stored) and written the listing or order
\* (wrote), its response (resp) and the invocations that had already been
\* answered when it arrived (after).
NewCall(op, id, user, body) ==
  [op |-> op, pc |-> "new", id |-> id, user |-> user, body |-> body,
   food |-> EmptyFood, found |-> FALSE, at |-> now, resp |-> NoResp,
   stored |-> FALSE, wrote |-> FALSE, after |-> DoneCalls]
\* fewer than n invocations so far
Room(n) == Len(calls) < n
MailsOf(c) == {m \in DOMAIN mails : mails[m].call = c}
Finish(c, resp) == [calls EXCEPT ![c].pc = "done", ![c].resp = resp]

Init ==
  /\ foods = <<>>
  /\ requests = {}
  /\ orders = <<>>
  /\ nextFood = 1
  /\ nextOrder = 1
  /\ calls = <<>>
  /\ mails = <<>>
  /\ now = 0
  /\ tz \in TZOffsets

\* The clock advances between any two steps, or does not: two handlers may
\* read the same instant from new Date().
Tick ==
  /\ now < MaxNow
  /\ now' = now + 1
  /\ UNCHANGED <<foods, requests, orders, nextFood, nextOrder, calls, mails, tz>>

\* ------------------------------------------------------------- POST /add-food
AddFoodDoc(data) ==
  [data EXCEPT !.price = ToNumber(data.price),
               !.quantity = ToNumber(data.quantity),
               !.status = "Available"]

\* The forms a donor submits; a client may add a status of its own.
AddFoodData ==
  [userEmail : Owners, foodName : {"rice"}, foodImg : {"img"},
   location : {"town"}, quantity : {Num(2), Str(2)}, exDate : ExDates,
   description : {UNDEF_S}, note : {"fresh"}, price : {UNDEF, Str(10)},
   status : {UNDEF_S, "Requested"}]
PricedFoodData == {data \in AddFoodData : data.price = Str(10)}

AddFood(data) ==
  /\ nextFood <= MaxFoods
  /\ foods' = Put(foods, nextFood, AddFoodDoc(data))
  /\ nextFood' = nextFood + 1
  /\ UNCHANGED <<requests, orders, nextOrder, calls, mails, now, tz>>

\* ------------------------------------------------------------- DELETE /all-foods/:id
DeleteFood ==
  /\ \E id \in FoodIds :
       /\ Exists(id)
       /\ foods' = Remove(foods, id)
  /\ UNCHANGED <<requests, orders, nextFood, nextOrder, calls, mails, now, tz>>

\* ------------------------------------------------------------- emailService.js
\* Building the message evaluates the template literals.  Interpolating an
\* absent field never throws; totalPrice.toFixed(2) throws unless totalPrice
\* is a number.
RequestMailBuilds == TRUE
BulkMailBuilds(totalPrice) == totalPrice.t = "num"
SenderThrows_unguarded(builds) == ~builds
\* Both senders are async functions whose whole body sits in try/catch: a
\* failure to build or to send is logged and returned as {success: false},
\* so the call itself never throws into the handler.
SenderThrows(builds) == FALSE
\* A launched dispatch: a message that was built is handed to the
\* transport, one that was not has already failed.
Launch(c, builds) ==
  Append(mails, [call |-> c, state |-> IF builds THEN "pending" ELSE "failed"])

\* transporter.sendMail settles: sent, or failed and logged
NotifySettle(m) ==
  /\ mails[m].state = "pending"
  /\ \E outcome \in {"sent", "failed"} :
       mails' = [mails EXCEPT ![m].state = outcome]
  /\ UNCHANGED <<foods, requests, orders, nextFood, nextOrder, calls, now, tz>>

\* ------------------------------------------------------------- POST /request-food/:id
RequestCheck_ownerAllowed(found, food, user, today, off) ==
  IF ~found THEN FoodNotFound
  ELSE IF IsExpired(food.exDate, today, off) THEN ExpiredFood
  ELSE NoResp
\* The checks between findOne and insertOne; NoResp lets the request through.
RequestCheck(found, food, user, today, off) ==
  IF ~found THEN FoodNotFound
  ELSE IF food.userEmail = user THEN OwnFood
  ELSE IF IsExpired(food.exDate, today, off) THEN ExpiredFood
  ELSE NoResp

RequestFind_notifiesOnArrival(id, user) ==
  /\ LET found == Exists(id)
         food == IF found THEN foods[id] ELSE EmptyFood
         resp == RequestCheck(found, food, user, now, tz)
         call == [NewCall("request", id, user, UNDEF) EXCEPT
                    !.food = food, !.found = found, !.resp = resp,
                    !.pc = IF resp = NoResp THEN "insert" ELSE "done"]
     IN /\ calls' = Append(calls, call)
        /\ mails' = Launch(Len(calls) + 1, RequestMailBuilds)
  /\ UNCHANGED <<foods, requests, orders, nextFood, nextOrder, now, tz>>
\* const food = await foodCollection.findOne(query), then the checks
RequestFind(id, user) ==
  /\ LET found == Exists(id)
         food == IF found THEN foods[id] ELSE EmptyFood
         resp == RequestCheck(found, food, user, now, tz)
         call == [NewCall("request", id, user, UNDEF) EXCEPT
                    !.food = food, !.found = found, !.resp = resp,
                    !.pc = IF resp = NoResp THEN "insert" ELSE "done"]
     IN calls' = Append(calls, call)
  /\ UNCHANGED <<foods, requests, orders, nextFood, nextOrder, mails, now, tz>>

\* await requestedCollection.insertOne(requestedData)
RequestInsert(c) ==
  /\ calls[c].op = "request" /\ calls[c].pc = "insert"
  /\ requests' = requests \cup {[call |-> c, id |-> calls[c].id, user |-> calls[c].user]}
  /\ calls' = [calls EXCEPT ![c].pc = "update", ![c].stored = TRUE]
  /\ UNCHANGED <<foods, orders, nextFood, nextOrder, mails, now, tz>>

\* updateOne(filter, {$set: fields}, {upsert: true}) on the listings
UpsertFood(id, doc) ==
  [coll |-> Put(foods, id, doc),
   modifiedCount |-> IF Exists(id) /\ foods[id] # doc THEN 1 ELSE 0]
BaseFood(id) == IF Exists(id) THEN foods[id] ELSE EmptyFood

RequestedDoc(doc) == [doc EXCEPT !.status = "Requested"]
RequestResponse(modifiedCount) ==
  IF modifiedCount > 0 THEN StatusUpdated ELSE StatusNotUpdated

\* await foodCollection.updateOne(...), the notification, the response
RequestUpdate(c) ==
  /\ calls[c].op = "request" /\ calls[c].pc = "update"
  /\ LET res == UpsertFood(calls[c].id, RequestedDoc(BaseFood(calls[c].id)))
     IN /\ foods' = res.coll
        /\ IF SenderThrows(RequestMailBuilds)
           THEN /\ calls' = [Finish(c, ServerError501) EXCEPT ![c].wrote = TRUE]
                /\ mails' = mails
           ELSE /\ calls' = [Finish(c, RequestResponse(res.modifiedCount)) EXCEPT
                               ![c].wrote = TRUE]
                /\ mails' = Launch(c, RequestMailBuilds)
  /\ UNCHANGED <<requests, orders, nextFood, nextOrder, now, tz>>

\* ------------------------------------------------------------- PUT /update-food/:id
NoChanges == R(400, "No changes detected. Please update at least one field.")
UpdateResult == R(200, "update result")

\* A form as the client submits it, and the same form with one field edited.
BaseBody ==
  [foodImg |-> "img", foodName |-> "rice", quantity |-> Num(2),
   location |-> "town", exDate |-> 0, note |-> "fresh",
   description |-> UNDEF_S, price |-> UNDEF]
UpdateBodies ==
  {BaseBody}
    \cup {[BaseBody EXCEPT !.foodName = "bread"]}
    \cup {[BaseBody EXCEPT !.quantity = Str(2)]}
    \cup {[BaseBody EXCEPT !.exDate = d] : d \in ExDates}
    \cup {[BaseBody EXCEPT !.description = "fresh"]}
    \cup {[BaseBody EXCEPT !.price = p] : p \in {Num(10), Str(10)}}

\* The conjuncts of isUnchanged that precede the date comparison
SameBeforeDate(food, body) ==
  /\ food.foodName = body.foodName
  /\ food.foodImg = body.foodImg
  /\ food.location = body.location
  /\ StrictEq(food.quantity, ToNumber(body.quantity))
\* new Date(x).toISOString() throws a RangeError on an Invalid Date; && only
\* evaluates the date conjunct when the ones before it are true.
DateThrows(food, body) ==
  SameBeforeDate(food, body) /\ ~(IsValidDate(food.exDate) /\ IsValidDate(body.exDate))
IsUnchanged(food, body) ==
  /\ SameBeforeDate(food, body)
  /\ ISODay(food.exDate) = ISODay(body.exDate)
  /\ OrS(food.description, food.note) = OrS(body.description, body.note)
  /\ StrictEq(OrZero(food.price), OrZero(body.price))

UpdateCheck(found, food, body) ==
  IF ~found THEN FoodNotFound
  ELSE IF DateThrows(food, body) THEN ServerError500
  ELSE IF IsUnchanged(food, body) THEN NoChanges
  ELSE NoResp

\* const existingFood = await foodCollection.findOne(filter), then the checks
UpdateFind(id, body) ==
  /\ LET found == Exists(id)
         food == IF found THEN foods[id] ELSE EmptyFood
         resp == UpdateCheck(found, food, body)
         call == [NewCall("update", id, UNDEF_S, body) EXCEPT
                    !.food = food, !.found = found, !.resp = resp,
                    !.pc = IF resp = NoResp THEN "write" ELSE "done"]
     IN calls' = Append(calls, call)
  /\ UNCHANGED <<foods, requests, orders, nextFood, nextOrder, mails, now, tz>>

UpdatedDoc_resetsStatus(doc, body) ==
  [doc EXCEPT !.foodImg = body.foodImg, !.foodName = body.foodName,
              !.quantity = body.quantity, !.location = body.location,
              !.exDate = body.exDate,
              !.description = OrS(body.description, body.note),
              !.price = body.price, !.status = "Available"]
\* the $set document applied to a listing
UpdatedDoc(doc, body) ==
  [doc EXCEPT !.foodImg = body.foodImg, !.foodName = body.foodName,
              !.quantity = body.quantity, !.location = body.location,
              !.exDate = body.exDate,
              !.description = OrS(body.description, body.note),
              !.price = body.price]

\* await foodCollection.updateOne(filter, updateDoc, options); res.send(result)
UpdateWrite(c) ==
  /\ calls[c].op = "update" /\ calls[c].pc = "write"
  /\ LET res == UpsertFood(calls[c].id, UpdatedDoc(BaseFood(calls[c].id), calls[c].body))
     IN foods' = res.coll
  /\ calls' = [Finish(c, UpdateResult) EXCEPT ![c].wrote = TRUE]
  /\ UNCHANGED <<requests, orders, nextFood, nextOrder, mails, now, tz>>

\* ------------------------------------------------------------- POST /orders
MissingFields == R(400, "Missing required fields")
OwnOrder == R(400, "You cannot order your own food.")
OrderPlaced == R(200, "Order placed successfully")

\* An order form, and the same form with one field changed or left out.
BaseOrder ==
  [ownerEmail |-> "donor", userEmail |-> "alice", quantity |-> Num(3),
   deliveryDate |-> "tomorrow", address |-> "street", totalPrice |-> Num(30)]
OrderBodies ==
  {BaseOrder}
    \cup {[BaseOrder EXCEPT !.userEmail = "donor"]}
    \cup {[BaseOrder EXCEPT !.userEmail = "donor", !.quantity = UNDEF]}
    \cup {[BaseOrder EXCEPT !.address = UNDEF_S]}
    \cup {[BaseOrder EXCEPT !.totalPrice = Str(30)]}

OrderCheck_ownAllowed(body) ==
  IF Falsy(body.quantity) \/ FalsyS(body.deliveryDate) \/ FalsyS(body.address)
  THEN MissingFields
  ELSE NoResp
OrderCheck(body) ==
  IF Falsy(body.quantity) \/ FalsyS(body.deliveryDate) \/ FalsyS(body.address)
  THEN MissingFields
  ELSE IF body.ownerEmail = body.userEmail THEN OwnOrder
  ELSE NoResp

OrderDoc(body, today) ==
  [ownerEmail |-> body.ownerEmail, userEmail |-> body.userEmail,
   quantity |-> ToNumber(body.quantity), deliveryDate |-> body.deliveryDate,
   address |-> body.address, totalPrice |-> ToNumber(body.totalPrice),
   orderDate |-> today, status |-> "Pending", updatedAt |-> AbsentDate]

\* the validation, then await orderCollection.insertOne(order)
PlaceOrderInsert(body) ==
  /\ LET resp == OrderCheck(body)
         call == [NewCall("order", nextOrder, body.userEmail, body) EXCEPT
                    !.resp = resp,
                    !.stored = (resp = NoResp),
                    !.pc = IF resp = NoResp THEN "notify" ELSE "done"]
     IN /\ resp = NoResp => nextOrder <= MaxOrders
        /\ calls' = Append(calls, call)
        /\ orders' = IF resp = NoResp
                     THEN Put(orders, nextOrder, OrderDoc(body, now))
                     ELSE orders
        /\ nextOrder' = IF resp = NoResp THEN nextOrder + 1 ELSE nextOrder
  /\ UNCHANGED <<foods, requests, nextFood, mails, now, tz>>

\* if (result.acknowledged): the notification, then the response
PlaceOrderNotify(c) ==
  /\ calls[c].op = "order" /\ calls[c].pc = "notify"
  /\ LET builds == BulkMailBuilds(calls[c].body.totalPrice)
     IN IF SenderThrows(builds)
        THEN /\ calls' = Finish(c, ServerError500)
             /\ mails' = mails
        ELSE /\ calls' = Finish(c, OrderPlaced)
             /\ mails' = Launch(c, builds)
  /\ UNCHANGED <<foods, requests, orders, nextFood, nextOrder, now, tz>>

\* ------------------------------------------------------------- PATCH /orders/:id
OrderStatusUpdated == R(200, "Status updated successfully")
OrderNotFound == R(404, "Order not found or status unchanged")
NewStatuses == {"Pending", "Confirmed"}

\* updateOne(filter, {$set: fields}) on the orders, no upsert
UpdateOrder(id, doc) ==
  [coll |-> IF id \in DOMAIN orders THEN Put(orders, id, doc) ELSE orders,
   modifiedCount |-> IF id \in DOMAIN orders /\ orders[id] # doc THEN 1 ELSE 0]
StatusDoc(doc, status, today) == [doc EXCEPT !.status = status, !.updatedAt = today]
StatusResponse(modifiedCount) ==
  IF modifiedCount > 0 THEN OrderStatusUpdated ELSE OrderNotFound

UpdateOrderStatus(id, status) ==
  /\ LET found == id \in DOMAIN orders
         res == UpdateOrder(id, IF found THEN StatusDoc(orders[id], status, now)
                                ELSE OrderDoc(CHOOSE b \in OrderBodies : TRUE, now))
         call == [NewCall("status", id, UNDEF_S, status) EXCEPT
                    !.found = found, !.pc = "done",
                    !.wrote = (res.modifiedCount > 0),
                    !.resp = StatusResponse(res.modifiedCount)]
     IN /\ orders' = res.coll
        /\ calls' = Append(calls, call)
  /\ UNCHANGED <<foods, requests, nextFood, nextOrder, mails, now, tz>>

\* ------------------------------------------------------------- browsing
\* A query-string value is a string, written here as its characters; an
\* absent parameter is undefined, which parseInt reads as the text
\* "undefined".
Absent == <<"undefined">>
Digits == <<"0", "1", "2", "3", "4", "5", "6", "7", "8", "9">>
IsDigit(ch) == \E i \in DOMAIN Digits : Digits[i] = ch
DigitVal(ch) == (CHOOSE i \in DOMAIN Digits : Digits[i] = ch) - 1
RECURSIVE SkipSpace(_)
SkipSpace(s) == IF s # <<>> /\ Head(s) = " " THEN SkipSpace(Tail(s)) ELSE s
\* the value of the longest prefix of digits of s, after the digits acc
RECURSIVE DigitPrefix(_, _)
DigitPrefix(s, acc) ==
  IF s # <<>> /\ IsDigit(Head(s))
  THEN DigitPrefix(Tail(s), 10 * acc + DigitVal(Head(s)))
  ELSE acc
\* parseInt(raw): leading blanks, an optional sign, then decimal digits up to
\* the first character that is not one; NaN when there is no digit.
ParseInt(raw) ==
  LET s == SkipSpace(raw)
      signed == s # <<>> /\ Head(s) \in {"-", "+"}
      body == IF signed THEN Tail(s) ELSE s
  IN IF body = <<>> \/ ~IsDigit(Head(body)) THEN NaN
     ELSE IF signed /\ Head(s) = "-" THEN Num(0 - DigitPrefix(body, 0))
     ELSE Num(DigitPrefix(body, 0))
\* x || d
OrDefault(x, d) == IF Falsy(x) THEN Num(d) ELSE x

ListingsPageSize == 12
OrdersPageSize == 10
Routes == {"all-foods", "manage-myfoods", "orders"}
DefaultLimit(route) == IF route = "orders" THEN OrdersPageSize ELSE ListingsPageSize
\* pageNum, limitNum and skip
Paging(route, page, limit) ==
  LET pageNum == OrDefault(ParseInt(page), 1).v
      limitNum == OrDefault(ParseInt(limit), DefaultLimit(route)).v
  IN [pageNum |-> pageNum, limitNum |-> limitNum, skip |-> (pageNum - 1) * limitNum]

\* Math.ceil(a / b) for a >= 0 and b # 0
Ceil(a, b) == IF b > 0 THEN (a + b - 1) \div b ELSE 0 - (a \div (0 - b))
HasNextPage_inclusive(pageNum, limitNum, totalItems) == pageNum * limitNum <= totalItems
HasNextPage(pageNum, limitNum, totalItems) == pageNum * limitNum < totalItems
Pagination(q, totalItems) ==
  [currentPage |-> q.pageNum,
   totalPages |-> Ceil(totalItems, q.limitNum),
   totalItems |-> totalItems,
   itemsPerPage |-> q.limitNum,
   hasNextPage |-> HasNextPage(q.pageNum, q.limitNum, totalItems),
   hasPrevPage |-> q.pageNum > 1]

\* no response yet
NoPagination ==
  [currentPage |-> 0, totalPages |-> 0, totalItems |-> 0, itemsPerPage |-> 0,
   hasNextPage |-> FALSE, hasPrevPage |-> FALSE]

\* The documents a route's query matches: all-foods filters on status when
\* one is given, the two others on the caller's email.
Matching(route, filter) ==
  CASE route = "all-foods" ->
         {i \in DOMAIN foods : FalsyS(filter) \/ foods[i].status = filter}
    [] route = "manage-myfoods" ->
         {i \in DOMAIN foods : foods[i].userEmail = filter}
    [] OTHER ->
         {i \in DOMAIN orders : orders[i].userEmail = filter}
Filters(route) == IF route = "all-foods" THEN {UNDEF_S, "Available"} ELSE {"donor", "alice"}
\* What query strings carry for page and limit
RawValues ==
  {Absent, <<>>, <<"0">>, <<"1">>, <<"2">>, <<"3">>, <<"1", "2">>,
   <<"-", "1">>, <<"2", ".", "5">>, <<"3", "x">>, <<"a", "b", "c">>,
   <<" ", "2">>}

PageFailed(route) ==
  R(500, IF route = "orders" THEN "Server Side Error"
         ELSE "Something went wrong on server side")
PageSent == R(200, "page")

\* the paging parameters, then const totalItems = await countDocuments(query)
BrowseCount(route, filter, page, limit) ==
  /\ LET call == [NewCall(route, 0, filter, UNDEF) EXCEPT !.pc = "find"]
              @@ [page |-> page, limit |-> limit,
                  query |-> Paging(route, page, limit),
                  totalItems |-> Cardinality(Matching(route, filter)),
                  returned |-> 0, pagination |-> NoPagination]
     IN calls' = Append(calls, call)
  /\ UNCHANGED <<foods, requests, orders, nextFood, nextOrder, mails, now, tz>>

\* The number of documents find(query).skip(s).limit(l) yields out of n: a
\* negative limit asks for its absolute value in a single batch.
Served(n, s, l) ==
  LET cap == IF l < 0 THEN 0 - l ELSE l
      left == IF n > s THEN n - s ELSE 0
  IN IF left < cap THEN left ELSE cap

\* await find(query).sort().skip(skip).limit(limitNum).toArray(), then the
\* response.  What the store does with a negative skip is not decided by
\* this code: it rejects, and the catch answers 500, or it serves from the
\* start.
BrowseFind(c) ==
  /\ calls[c].op \in Routes /\ calls[c].pc = "find"
  /\ LET q == calls[c].query
         n == Cardinality(Matching(calls[c].op, calls[c].user))
     IN \E rejected \in IF q.skip < 0 THEN {TRUE, FALSE} ELSE {FALSE} :
          calls' =
            IF rejected THEN Finish(c, PageFailed(calls[c].op))
            ELSE [Finish(c, PageSent) EXCEPT
                    ![c].returned = Served(n, IF q.skip < 0 THEN 0 ELSE q.skip, q.limitNum),
                    ![c].pagination = Pagination(q, calls[c].totalItems)]
  /\ UNCHANGED <<foods, requests, orders, nextFood, nextOrder, mails, now, tz>>

\* ------------------------------------------------------------- specifications
\* MaxCalls invocations arrive in a run that follows single invocations; a
\* run that lets invocations race has room for one more, and a run of status
\* updates on a placed order for one more again.
Racing == MaxCalls + 1
Repeating == MaxCalls + 2
Requesters == {"donor", "alice"}

RequestArrives(n, users) ==
  Room(n) /\ \E id \in FoodIds, user \in users : RequestFind(id, user)
RequestProceeds ==
  \/ \E c \in DOMAIN calls : RequestInsert(c)
  \/ \E c \in DOMAIN calls : RequestUpdate(c)
UpdateArrives(n) ==
  Room(n) /\ \E id \in FoodIds, body \in UpdateBodies : UpdateFind(id, body)
UpdateProceeds == \E c \in DOMAIN calls : UpdateWrite(c)
OrderArrives(n) == Room(n) /\ \E body \in OrderBodies : PlaceOrderInsert(body)
OrderProceeds == \E c \in DOMAIN calls : PlaceOrderNotify(c)
PatchArrives(n) ==
  Room(n) /\ \E id \in OrderIds, status \in NewStatuses : UpdateOrderStatus(id, status)
Settle == \E m \in DOMAIN mails : NotifySettle(m)
Listed == \E data \in PricedFoodData : AddFood(data)

\* The server in one time zone (UTC)
InitUTC == Init /\ tz = 0

\* every route
Next ==
  \/ Tick \/ (\E data \in AddFoodData : AddFood(data)) \/ DeleteFood
  \/ RequestArrives(Racing, Users) \/ RequestProceeds
  \/ UpdateArrives(Racing) \/ UpdateProceeds
  \/ OrderArrives(Racing) \/ OrderProceeds
  \/ PatchArrives(Racing) \/ Settle
Spec == Init /\ [][Next]_vars

\* one request for food, among the listing routes
NextRequest == Tick \/ Listed \/ DeleteFood \/ RequestArrives(MaxCalls, Requesters) \/ RequestProceeds
SpecRequest == Init /\ [][NextRequest]_vars

\* requests for food that race with each other and with the listing routes
NextRace == Tick \/ Listed \/ DeleteFood \/ RequestArrives(Racing, Users) \/ RequestProceeds
SpecRace == Init /\ [][NextRace]_vars

\* updates of a listing, among the listing routes
NextUpdate ==
  \/ (\E data \in AddFoodData : AddFood(data)) \/ DeleteFood
  \/ UpdateArrives(Racing) \/ UpdateProceeds
SpecUpdate == InitUTC /\ [][NextUpdate]_vars

\* placing orders
NextOrder == Tick \/ OrderArrives(Racing) \/ OrderProceeds \/ Settle
SpecOrder == InitUTC /\ [][NextOrder]_vars

\* an order and the updates of its status
NextPatch == Tick \/ OrderArrives(MaxCalls) \/ OrderProceeds \/ PatchArrives(Repeating)
SpecPatch == InitUTC /\ [][NextPatch]_vars

\* the routes that notify: a request for food and a bulk order
NextNotify ==
  \/ Tick \/ Listed
  \/ RequestArrives(MaxCalls, Requesters) \/ RequestProceeds
  \/ OrderArrives(MaxCalls) \/ OrderProceeds \/ Settle
SpecNotify == InitUTC /\ [][NextNotify]_vars

\* the routes that write a listing, one request served at a time
Idle == \A c \in DOMAIN calls : Done(c)
NextSerial ==
  \/ Idle /\ Listed
  \/ Idle /\ DeleteFood
  \/ Idle /\ RequestArrives(Racing, Requesters)
  \/ Idle /\ UpdateArrives(Racing)
  \/ RequestProceeds
  \/ UpdateProceeds
SpecSerial == InitUTC /\ [][NextSerial]_vars

\* browsing a store that has been in use: some listings of one donor and as
\* many orders of one customer
StockedFood ==
  AddFoodDoc([userEmail |-> "donor", foodName |-> "rice", foodImg |-> "img",
              location |-> "town", quantity |-> Num(2), exDate |-> MaxNow,
              description |-> UNDEF_S, note |-> "fresh", price |-> Str(10),
              status |-> UNDEF_S])
InitBrowse ==
  /\ \E n \in 0..MaxListed :
       /\ foods = [i \in 1..n |-> StockedFood]
       /\ orders = [i \in 1..n |-> OrderDoc(BaseOrder, 0)]
       /\ nextFood = n + 1
       /\ nextOrder = n + 1
  /\ requests = {}
  /\ calls = <<>>
  /\ mails = <<>>
  /\ now = 0
  /\ tz = 0
BrowseArrives(n) ==
  Room(n) /\ \E route \in Routes : \E filter \in Filters(route) :
               \E page \in RawValues, limit \in RawValues :
                 BrowseCount(route, filter, page, limit)
BrowseProceeds == \E c \in DOMAIN calls : BrowseFind(c)
NextBrowse == DeleteFood \/ BrowseArrives(MaxCalls) \/ BrowseProceeds
SpecBrowse == InitBrowse /\ [][NextBrowse]_vars

\* ============================================================= properties
IsRequest(c) == calls[c].op = "request"
\* The calendar day of an instant on the server's clock
LocalDay(d, off) == (d + off) \div TicksPerDay
\* The listing the call read had expired before the day the call was made.
ExpiredWhenRead(c) ==
  /\ IsValidDate(calls[c].food.exDate)
  /\ LocalDay(calls[c].food.exDate, tz) < LocalDay(calls[c].at, tz)
ByOwner(c) == calls[c].food.userEmail = calls[c].user
\* The call left no trace: no record, no listing write, no dispatch.
NoEffect(c) ==
  /\ ~calls[c].stored
  /\ ~calls[c].wrote
  /\ MailsOf(c) = {}
  /\ \A r \in requests : r.call # c

\* C1: a request for food by the listing's owner is answered "You cannot
\* request your own donated food.", also when the listing is available and
\* not expired; it stores no request and does not write the listing.
C1_OwnRequestRefused ==
  \A c \in DOMAIN calls :
    (IsRequest(c) /\ calls[c].found /\ ByOwner(c)) =>
      (Done(c) /\ calls[c].resp = OwnFood /\ NoEffect(c))
C1_Witness ==
  \E c \in DOMAIN calls :
    /\ IsRequest(c) /\ calls[c].found /\ ByOwner(c)
    /\ calls[c].food.status = "Available"
    /\ ~IsExpired(calls[c].food.exDate, now, tz)
    /\ IsValidDate(calls[c].food.exDate)
    /\ calls[c].resp = OwnFood

\* C2 as stated: a request for a listing whose expiry day is before the
\* current day is answered "expired", whoever asks.
C2_ExpiredWhoeverAsks ==
  \A c \in DOMAIN calls :
    (IsRequest(c) /\ calls[c].found /\ ExpiredWhenRead(c)) =>
      calls[c].resp = ExpiredFood
\* C2 amended: a request for a listing whose expiry day is before the current
\* day fails and leaves no trace; it is answered "expired" when the requester
\* is not the owner, whatever the listing's status, and "own food" when the
\* requester is the owner.
C2_ExpiredRefused ==
  \A c \in DOMAIN calls :
    (IsRequest(c) /\ calls[c].found /\ ExpiredWhenRead(c)) =>
      /\ Done(c)
      /\ calls[c].resp = IF ByOwner(c) THEN OwnFood ELSE ExpiredFood
      /\ NoEffect(c)
C2_Witness ==
  \E c \in DOMAIN calls :
    /\ IsRequest(c) /\ calls[c].found /\ ExpiredWhenRead(c)
    /\ ~ByOwner(c)
    /\ calls[c].resp = ExpiredFood

\* The call passed the checks of a request: listing found, not the owner's
\* own request, not expired.
ValidRequest(c) ==
  /\ IsRequest(c) /\ calls[c].found /\ ~ByOwner(c)
  /\ ~IsExpired(calls[c].food.exDate, calls[c].at, tz)
\* The call's request went through and was reported as a success.
Succeeded(c) ==
  /\ calls[c].resp = StatusUpdated
  /\ \E r \in requests : r.call = c
  /\ Cardinality(MailsOf(c)) = 1

\* Calls a and b read the same listing, which nothing but their own status
\* updates has touched since.
SameListing(a, b) ==
  /\ calls[a].id = calls[b].id
  /\ RequestedDoc(calls[a].food) = RequestedDoc(calls[b].food)
  /\ Exists(calls[a].id)
  /\ foods[calls[a].id] = RequestedDoc(calls[a].food)

\* C3: of two requests for the same available listing by different
\* requesters, the second arriving after the first was answered, both store
\* their request, launch one dispatch each and are reported as successes,
\* and the listing ends Requested.
C3_SequentialRequestsSucceed ==
  \A a, b \in DOMAIN calls :
    ( /\ ValidRequest(a) /\ ValidRequest(b)
      /\ a \in calls[b].after
      /\ calls[a].user # calls[b].user
      /\ calls[a].food.status = "Available"
      /\ Done(b) /\ SameListing(a, b) ) =>
        /\ Succeeded(a) /\ Succeeded(b)
        /\ foods[calls[b].id].status = "Requested"

\* C4: two requests for the same listing that overlap in time both succeed,
\* store their request and launch a dispatch, and the listing ends Requested.
C4_ConcurrentRequestsSucceed ==
  \A a, b \in DOMAIN calls :
    ( /\ ValidRequest(a) /\ ValidRequest(b)
      /\ a < b /\ a \notin calls[b].after
      /\ Done(a) /\ Done(b) /\ SameListing(a, b) ) =>
        /\ Succeeded(a) /\ Succeeded(b)
        /\ foods[calls[b].id].status = "Requested"

IsOrder(c) == calls[c].op = "order"
SelfOrder(c) == calls[c].body.ownerEmail = calls[c].body.userEmail
\* quantity, deliveryDate or address is absent (or empty, or zero)
LacksRequired(body) ==
  Falsy(body.quantity) \/ FalsyS(body.deliveryDate) \/ FalsyS(body.address)
NoSelfOrders == \A o \in DOMAIN orders : orders[o].ownerEmail # orders[o].userEmail

\* C5 as stated: an order whose ownerEmail equals its userEmail is answered
\* "You cannot order your own food.", inserts nothing and notifies nobody; so
\* no stored order has ownerEmail = userEmail.
C5_SelfOrderInvalidOperation ==
  /\ \A c \in DOMAIN calls :
       (IsOrder(c) /\ SelfOrder(c)) =>
         (Done(c) /\ calls[c].resp = OwnOrder /\ NoEffect(c))
  /\ NoSelfOrders
\* C5 amended: an order whose ownerEmail equals its userEmail fails, inserts
\* nothing and notifies nobody; it is answered "You cannot order your own
\* food." when quantity, deliveryDate and address are present, and "Missing
\* required fields" otherwise.  No stored order has ownerEmail = userEmail.
C5_SelfOrderRefused ==
  /\ \A c \in DOMAIN calls :
       (IsOrder(c) /\ SelfOrder(c)) =>
         /\ Done(c)
         /\ calls[c].resp =
              IF LacksRequired(calls[c].body) THEN MissingFields ELSE OwnOrder
         /\ NoEffect(c)
  /\ NoSelfOrders
C5_Witness ==
  \E c \in DOMAIN calls :
    /\ IsOrder(c) /\ SelfOrder(c) /\ ~LacksRequired(calls[c].body)
    /\ calls[c].resp = OwnOrder
    /\ \E d \in DOMAIN calls : IsOrder(d) /\ calls[d].resp = OrderPlaced

IsUpdate(c) == calls[c].op = "update"
\* The submitted fields are those of the stored record: same name, image,
\* location, quantity and price, same description or note, same expiry day.
SameAsStored(food, body) ==
  /\ body.foodName = food.foodName
  /\ body.foodImg = food.foodImg
  /\ body.location = food.location
  /\ body.quantity = food.quantity
  /\ body.price = food.price
  /\ OrS(body.description, body.note) = OrS(food.description, food.note)
  /\ IsValidDate(food.exDate) /\ IsValidDate(body.exDate)
  /\ ISODay(body.exDate) = ISODay(food.exDate)

\* C6: an update whose fields are those of the stored record is answered "No
\* changes detected" and writes nothing.
C6_IdenticalUpdateIsNoChange ==
  \A c \in DOMAIN calls :
    (IsUpdate(c) /\ calls[c].found /\ SameAsStored(calls[c].food, calls[c].body)) =>
      (Done(c) /\ calls[c].resp = NoChanges /\ ~calls[c].wrote)

\* The record the call inserted is in its collection.
Persisted(c) ==
  IF IsOrder(c) THEN calls[c].id \in DOMAIN orders
  ELSE \E r \in requests : r.call = c
DispatchFailed(c) == \E m \in MailsOf(c) : mails[m].state = "failed"

\* C7: whatever becomes of the dispatch, a request for food or an order that
\* stored its record is answered as a success (status 200, the message
\* decided by the store alone), and its record and status change stay.
C7_DispatchNeverFailsOperation ==
  \A c \in DOMAIN calls :
    ((IsOrder(c) \/ IsRequest(c)) /\ calls[c].stored) =>
      /\ Persisted(c)
      /\ Done(c) =>
           /\ calls[c].resp \in
                (IF IsOrder(c) THEN {OrderPlaced}
                 ELSE {StatusUpdated, StatusNotUpdated})
           /\ Cardinality(MailsOf(c)) = 1
      /\ (IsRequest(c) /\ calls[c].wrote) =>
           (Exists(calls[c].id) /\ foods[calls[c].id].status = "Requested")
C7_Witness ==
  \E c \in DOMAIN calls :
    /\ IsOrder(c) /\ Done(c) /\ DispatchFailed(c)
    /\ ~BulkMailBuilds(calls[c].body.totalPrice)
    /\ calls[c].resp = OrderPlaced /\ Persisted(c)

ValidationFailures == {FoodNotFound, OwnFood, ExpiredFood, MissingFields, OwnOrder}

\* C8: a call has at most one dispatch; it has one only once its record is
\* stored; a call refused by a check has none.
C8_DispatchAfterPersist ==
  \A c \in DOMAIN calls :
    /\ Cardinality(MailsOf(c)) <= 1
    /\ MailsOf(c) # {} => (calls[c].stored /\ Persisted(c))
    /\ calls[c].resp \in ValidationFailures => MailsOf(c) = {}
C8_Witness ==
  \E c \in DOMAIN calls :
    /\ IsRequest(c) /\ Cardinality(MailsOf(c)) = 1
    /\ calls[c].stored /\ Persisted(c)

\* C9: a step changes the status of a listing that stays in the store only
\* from Available to Requested, and a listing that add-food creates is
\* Available.
C9_StatusOnlyAdvances ==
  [][ /\ \A id \in FoodIds :
           (Exists(id) /\ id \in DOMAIN foods') =>
             \/ foods'[id].status = foods[id].status
             \/ foods[id].status = "Available" /\ foods'[id].status = "Requested"
      /\ nextFood' # nextFood => foods'[nextFood].status = "Available" ]_vars
C9_Witness ==
  \E c \in DOMAIN calls :
    /\ IsUpdate(c) /\ calls[c].wrote
    /\ calls[c].food.status = "Requested"
    /\ Exists(calls[c].id) /\ foods[calls[c].id].status = "Requested"

IsPatch(c) == calls[c].op = "status"
\* C10: a status update is answered "not found" exactly when no order has
\* the id; when one has, the update writes the status and succeeds.
C10_NotFoundIffAbsent ==
  \A c \in DOMAIN calls :
    IsPatch(c) =>
      /\ calls[c].resp = OrderNotFound <=> ~calls[c].found
      /\ calls[c].found =>
           /\ calls[c].resp = OrderStatusUpdated
           /\ calls[c].wrote
IsBrowse(c) == calls[c].op \in Routes
\* The raw value is the decimal notation of an integer >= 1.
IsPositiveInteger(raw) ==
  /\ raw # <<>>
  /\ \A i \in DOMAIN raw : IsDigit(raw[i])
  /\ DigitPrefix(raw, 0) >= 1

\* C11: for every raw page and limit of a browse route, page and pageSize are
\* integers >= 1; page is 1 when the raw value is absent or not a positive
\* integer and the raw value otherwise, pageSize likewise with the route's
\* default (12 for listings, 10 for orders); skip = (page - 1) * pageSize is
\* never negative.
C11_PageAndSizePositive ==
  \A c \in DOMAIN calls :
    IsBrowse(c) =>
      LET q == calls[c].query
      IN /\ q.pageNum >= 1 /\ q.limitNum >= 1
         /\ q.pageNum = IF IsPositiveInteger(calls[c].page)
                        THEN DigitPrefix(calls[c].page, 0) ELSE 1
         /\ q.limitNum = IF IsPositiveInteger(calls[c].limit)
                         THEN DigitPrefix(calls[c].limit, 0)
                         ELSE DefaultLimit(calls[c].op)
         /\ q.skip = (q.pageNum - 1) * q.limitNum
         /\ q.skip >= 0
\* The call was answered with a page, for a page and a page size >= 1.
PageAnswered(c) ==
  /\ IsBrowse(c) /\ calls[c].resp = PageSent
  /\ calls[c].query.pageNum >= 1 /\ calls[c].query.limitNum >= 1
\* the least k with k * size >= total
CeilOf(total, size) ==
  CHOOSE k \in 0..total : k * size >= total /\ (k = 0 \/ (k - 1) * size < total)

\* C12: for totalItems >= 0, pageSize >= 1 and page >= 1 the metadata of a
\* page has totalPages = ceil(totalItems / pageSize), hasPrevPage iff
\* page > 1 and hasNextPage iff page < totalPages; it repeats the page, the
\* page size and the total.
C12_PaginationMetadata ==
  \A c \in DOMAIN calls :
    PageAnswered(c) =>
      LET p == calls[c].pagination
          q == calls[c].query
      IN /\ p.currentPage = q.pageNum
         /\ p.itemsPerPage = q.limitNum
         /\ p.totalItems = calls[c].totalItems
         /\ p.totalPages = CeilOf(p.totalItems, p.itemsPerPage)
         /\ p.hasPrevPage <=> p.currentPage > 1
         /\ p.hasNextPage <=> p.currentPage < p.totalPages
\* 25 items in pages of 12: page 3 of 3 has no next page
C12_Witness ==
  \E c \in DOMAIN calls :
    /\ PageAnswered(c)
    /\ calls[c].pagination =
         [currentPage |-> 3, totalPages |-> 3, totalItems |-> 25,
          itemsPerPage |-> 12, hasNextPage |-> FALSE, hasPrevPage |-> TRUE]
\* C13: only add-food creates a listing record: a step that puts an id into
\* the listing store that was not there is the add-food step taking a fresh
\* id, so that an id delete has removed stays absent, also when an update
\* or a request read the listing before the delete and writes after it.
C13_OnlyAddFoodCreates ==
  [][ \A id \in FoodIds :
        (~Exists(id) /\ id \in DOMAIN foods') =>
          (id = nextFood /\ nextFood' = nextFood + 1) ]_vars
\* Update b repeats update a at once: same listing, same fields, a was
\* answered before b arrived, and b read the record as a wrote it.
RepeatsAtOnce(a, b) ==
  /\ IsUpdate(a) /\ IsUpdate(b) /\ a \in calls[b].after
  /\ calls[a].wrote /\ calls[a].resp = UpdateResult
  /\ calls[b].id = calls[a].id /\ calls[b].body = calls[a].body
  /\ calls[b].found
  /\ calls[b].food = UpdatedDoc(calls[a].food, calls[a].body)

\* C14: an update that repeats at once, field for field, an update that
\* succeeded is answered "No changes detected" and writes nothing.
C14_RepeatedUpdateIsNoChange ==
  \A a, b \in DOMAIN calls :
    RepeatsAtOnce(a, b) =>
      (Done(b) /\ calls[b].resp = NoChanges /\ ~calls[b].wrote)
====
